---- MODULE Spec2Model ----
(***************************************************************************)
(* A model of proxy-handler-decorators (src/src/index.ts): the class       *)
(* decorators TargetAsThis, DefaultToPrimitive, DefaultToStringTag,        *)
(* AllowGetTarget and Mapped(mapper), the accessor getTarget, and the host *)
(* operations (new Proxy, property read, has, set, call, coercion) that    *)
(* drive them.                                                             *)
(*                                                                         *)
(* Handler types are classes: `classes` is the prototype chain of the      *)
(* handler types defined so far, classes[1] the root handler type and      *)
(* classes[i] a class that extends classes[i-1].  A handler instance is    *)
(* stateless: its traps are looked up on the chain of its class each time  *)
(* the host calls them, so the proxy records the class of its handler.     *)
(* No method of the model reads its own this (the decorators call          *)
(* super.get and the wrapped originalValue as plain functions), so the     *)
(* this of a handler method is left out.                                   *)
(***************************************************************************)
EXTENDS Naturals, Sequences, FiniteSets

VARIABLES classes, proxy, last

vars == <<classes, proxy, last>>

\* Number of decorator applications on one root handler type.
MaxLayers == 2

(***************************************************************************)
(* JavaScript values.  Every value is a record with a field k.             *)
(***************************************************************************)
Undef == [k |-> "undefined"]

Null == [k |-> "null"]

\* A primitive; bang counts the "!" that addBang appended to the content.
Prim(v, bang) == [k |-> "prim", v |-> v, bang |-> bang]

\* An object: kind names the object the caller built, bang how many times
\* mapper derived a fresh object from it (0: the caller's own object).
Obj(kind, bang) == [k |-> "object", kind |-> kind, bang |-> bang]

\* The proxy object itself (as a value: the receiver of a trap, a this).
ProxyRef == [k |-> "proxyObject"]

PKey(p) == [k |-> "key", v |-> p]

Error(name) == [k |-> "error", v |-> name]

\* The method m found on a target, the target odd's own Symbol.toPrimitive.
Method == [k |-> "function", name |-> "m"]

OwnHook == [k |-> "function", name |-> "ownToPrimitive"]

\* What a call of a plain function leaves behind: callee, this, arguments.
CallResult(fn, this, args) == [k |-> "called", fn |-> fn, this |-> this, args |-> args]

\* The objects a caller proxies:
\*   foo    an instance of class Foo (valueOf is Object.prototype.valueOf)
\*   fn     a function (a callable Target)
\*   boxed  new Number(5) (valueOf gives a primitive)
\*   bare   Object.create(null) (no prototype)
\*   odd    Object.create({constructor: 42}) with its own Symbol.toPrimitive
\* Each has a data property x, a method m and a getter boom that throws.
TargetKinds == {"foo", "fn", "boxed", "bare", "odd"}

Targets == {Obj(kind, 0) : kind \in TargetKinds}

\* A receiver that is neither the proxy nor a Target.
OtherThis == Obj("other", 0)

getTargetSymbol == "getTargetSymbol"

Keys == {"x", "m", "none", "boom", "Symbol.toPrimitive", "Symbol.toStringTag",
         getTargetSymbol}

\* The traps the model's handlers may define, and a handler method that is
\* no trap.
MethodNames == {"get", "has", "set", "helper"}

\* Object.prototype.hasOwnProperty.call(Reflect, propertyKey)
ReflectOwnNames == {"apply", "construct", "defineProperty", "deleteProperty",
                    "get", "getOwnPropertyDescriptor", "getPrototypeOf", "has",
                    "isExtensible", "ownKeys", "preventExtensions", "set",
                    "setPrototypeOf"}

(***************************************************************************)
(* Outcomes of an evaluation: a value or a thrown fault, and the calls     *)
(* made on the way, in call order.                                         *)
(***************************************************************************)
Ok(v, calls) == [status |-> "ok", value |-> v, calls |-> calls]

Throw(e, calls) == [status |-> "throw", value |-> e, calls |-> calls]

Event(fn, target, rest) == [fn |-> fn, target |-> target, rest |-> rest]

\* typeof v === 'function'
IsCallable(v) ==
    \/ v.k \in {"function", "wrapped", "toPrimitiveHook"}
    \/ v.k = "object" /\ v.kind = "fn"

(***************************************************************************)
(* The host's default semantics on the objects above.                      *)
(***************************************************************************)
\* Reflect.get(target, p, receiver)
ReflectGet(target, rest) ==
    LET ev == <<Event("Reflect.get", target, rest)>>
        p == rest[1].v
    IN  CASE p = "x" -> Ok(Prim("hello", target.bang), ev)
          [] p = "m" -> Ok(Method, ev)
          [] p = "boom" -> Throw(Error("boom"), ev)
          [] p = "Symbol.toPrimitive" /\ target.kind = "odd" -> Ok(OwnHook, ev)
          [] OTHER -> Ok(Undef, ev)

\* Reflect.has(target, p)
ReflectHas(target, rest) ==
    LET p == rest[1].v
    IN  Ok([k |-> "boolean",
            v |-> \/ p \in {"x", "m", "boom"}
                  \/ p = "Symbol.toPrimitive" /\ target.kind = "odd"],
           <<Event("Reflect.has", target, rest)>>)

\* Reflect.set(target, p, value, receiver): the Targets' x is a read-only
\* (non-writable, configurable) data property, so the write is refused and
\* nothing changes.
ReflectSet(target, rest) ==
    Ok([k |-> "boolean", v |-> FALSE], <<Event("Reflect.set", target, rest)>>)

\* String(target)
StringOf(target) ==
    CASE target.kind = "foo" -> Ok(Prim("[object Object]", target.bang), <<>>)
      [] target.kind = "fn" -> Ok(Prim("function () {}", target.bang), <<>>)
      [] target.kind = "boxed" -> Ok(Prim("'5'", target.bang), <<>>)
      [] target.kind = "odd" -> Ok(Prim("'hooked'", target.bang), <<>>)
      [] OTHER -> Throw(Error("TypeError"), <<>>)

\* Number(target)
NumberOf(target) ==
    CASE target.kind \in {"foo", "fn", "odd"} -> Ok(Prim("NaN", target.bang), <<>>)
      [] target.kind = "boxed" -> Ok(Prim("5", target.bang), <<>>)
      [] OTHER -> Throw(Error("TypeError"), <<>>)

\* target.valueOf(): Object.prototype.valueOf returns the object itself,
\* Number.prototype.valueOf the number; an object without prototype has no
\* valueOf to call.
ValueOf(target) ==
    CASE target.kind \in {"foo", "fn", "odd"} -> Ok(target, <<>>)
      [] target.kind = "boxed" -> Ok(Prim("5", target.bang), <<>>)
      [] OTHER -> Throw(Error("TypeError"), <<>>)

\* The host's own conversion of a Target with no Symbol.toPrimitive, hint
\* "default": valueOf, then toString when valueOf gave an object.
OrdinaryDefault(target) ==
    CASE target.kind = "foo" -> Ok(Prim("[object Object]", target.bang), <<>>)
      [] target.kind = "fn" -> Ok(Prim("function () {}", target.bang), <<>>)
      [] target.kind = "boxed" -> Ok(Prim("5", target.bang), <<>>)
      [] target.kind = "odd" -> Ok(Prim("'hooked'", target.bang), <<>>)
      [] OTHER -> Throw(Error("TypeError"), <<>>)

\* Object.getPrototypeOf(target)?.constructor, when it is a function: its name.
ConstructorName(target) ==
    CASE target.kind = "foo" -> Prim("Foo", 0)
      [] target.kind = "fn" -> Prim("Function", 0)
      [] target.kind = "boxed" -> Prim("Number", 0)
      [] OTHER -> Undef

\* The doctest's mapper: a fresh object, every word with one more "!".
addBang(from) == [from EXCEPT !.bang = @ + 1]

mapper(name, from) == IF name = "addBang" THEN addBang(from) ELSE from

Mappers == {"addBang"}

(***************************************************************************)
(* Handler types.                                                          *)
(***************************************************************************)
NoMethod == [k |-> "none"]

\* A method of a root handler type: it forwards to Reflect.
BaseMethod(name) == [k |-> "base", name |-> name]

\* The get that a decorator's class declares; home is the class declaring it.
LayerGet(layer, home) == [k |-> "layerGet", layer |-> layer, home |-> home]

\* (target, ...restAugments) => originalValue(mapper(target), ...restAugments)
MappedMethod(m, originalValue) == [k |-> "mapped", mapper |-> m, orig |-> originalValue]

NoMethods == [n \in MethodNames |-> NoMethod]

\* class {}: a handler type with no traps.
NoTraps == [layer |-> "NoTraps", methods |-> NoMethods, mapped |-> 0]

\* A handler type in the manner of DefaultProxyHandler: every trap forwards
\* to Reflect; helper(target) is a method that is no trap.
Forwarding ==
    [layer |-> "Forwarding", methods |-> [n \in MethodNames |-> BaseMethod(n)],
     mapped |-> 0]

RootTypes == {NoTraps, Forwarding}

\* The method `name` an instance of classes[idx] inherits: the most derived
\* definition on the prototype chain.
RECURSIVE Lookup(_, _, _)
Lookup(tbl, idx, name) ==
    IF idx = 0 THEN NoMethod
    ELSE IF tbl[idx].methods[name] # NoMethod THEN tbl[idx].methods[name]
    ELSE Lookup(tbl, idx - 1, name)

(***************************************************************************)
(* The decorators' get, and the call of a handler method.                  *)
(***************************************************************************)
RECURSIVE Call(_, _, _, _)

\* A get that reads the Target itself and never asks the class it extends.
SuperGetReflectOnly(tbl, home, target, rest) == ReflectGet(target, rest)

\* (super.get ?? Reflect.get)(target, p, receiver) in the class `home`.
SuperGet(tbl, home, target, rest) ==
    LET superGet == Lookup(tbl, home - 1, "get")
    IN  IF superGet = NoMethod THEN ReflectGet(target, rest)
        ELSE Call(tbl, superGet, target, rest)

\* property.name
NameOf(property) == IF property.k \in {"function", "wrapped"} THEN property.name ELSE ""

\* TargetAsThis.get once property is read: a function is wrapped, with the
\* target and the receiver of this access in its closure.
TargetAsThisProperty(property, target, receiver) ==
    IF IsCallable(property)
    THEN [k |-> "wrapped", property |-> property, target |-> target,
          receiver |-> receiver, name |-> NameOf(property)]
    ELSE property

\* DefaultToPrimitive.get once property is read.
DefaultToPrimitiveProperty(property, target, p) ==
    IF property = Undef
    THEN IF p = "Symbol.toPrimitive"
         THEN [k |-> "toPrimitiveHook", target |-> target]
         ELSE property
    ELSE property

\* A get that supplies the constructor's name for any missing property.
DefaultToStringTagAnyKey(property, target, p) ==
    IF property = Undef THEN ConstructorName(target) ELSE property

\* DefaultToStringTag.get once property is read.
DefaultToStringTagProperty(property, target, p) ==
    IF property = Undef
    THEN IF p = "Symbol.toStringTag" THEN ConstructorName(target) ELSE property
    ELSE property

\* The get of a class that extends superClass and reads the property first.
\* A fault of the inner get is not caught.
ReadingLayerGet(tbl, layer, home, target, rest) ==
    LET inner == SuperGet(tbl, home, target, rest)
        property == inner.value
        p == rest[1].v
        ev == <<Event(layer, target, rest)>>
    IN  IF inner.status = "throw" THEN Throw(inner.value, ev \o inner.calls)
        ELSE Ok(CASE layer = "TargetAsThis" ->
                       TargetAsThisProperty(property, target, rest[2])
                  [] layer = "DefaultToPrimitive" ->
                       DefaultToPrimitiveProperty(property, target, p)
                  [] OTHER ->
                       DefaultToStringTagProperty(property, target, p),
                ev \o inner.calls)

\* AllowGetTarget.get
AllowGetTargetGet(tbl, home, target, rest) ==
    LET ev == <<Event("AllowGetTarget", target, rest)>>
    IN  IF rest[1].v = getTargetSymbol THEN Ok(target, ev)
        ELSE LET inner == SuperGet(tbl, home, target, rest)
             IN  [inner EXCEPT !.calls = ev \o @]

\* A method of the root handler type Forwarding.
BaseCall(name, target, rest) ==
    LET ev == <<Event("Forwarding", target, rest)>>
        inner == CASE name = "get" -> ReflectGet(target, rest)
                   [] name = "has" -> ReflectHas(target, rest)
                   [] name = "set" -> ReflectSet(target, rest)
                   [] OTHER -> Ok(target, <<>>)
    IN  [inner EXCEPT !.calls = ev \o @]

\* The method Mapped leaves on the prototype:
\* (target, ...restAugments) => originalValue(mapper(target), ...restAugments)
MappedCall(tbl, method, target, rest) ==
    LET inner == Call(tbl, method.orig, mapper(method.mapper, target), rest)
    IN  [inner EXCEPT !.calls =
            <<Event("Mapped", target, rest), Event("mapper", target, <<>>)>> \o @]

\* method(target, ...rest)
Call(tbl, method, target, rest) ==
    CASE method.k = "mapped" -> MappedCall(tbl, method, target, rest)
      [] method.k = "base" -> BaseCall(method.name, target, rest)
      [] method.k = "layerGet" /\ method.layer = "AllowGetTarget" ->
            AllowGetTargetGet(tbl, method.home, target, rest)
      [] OTHER -> ReadingLayerGet(tbl, method.layer, method.home, target, rest)

\* The function DefaultToPrimitive supplies, called with a hint.
ToPrimitiveHook(target, hint) ==
    CASE hint.v = "string" -> StringOf(target)
      [] hint.v = "number" -> NumberOf(target)
      [] hint.v = "default" -> ValueOf(target)
      [] OTHER -> Ok(Undef, <<>>)

\* Reflect.apply(f, this, argArray)
RECURSIVE Apply(_, _, _)
Apply(f, this, argArray) ==
    CASE f.k = "wrapped" ->
            Apply(f.property, IF this = f.receiver THEN f.target ELSE this, argArray)
      [] f.k = "toPrimitiveHook" -> ToPrimitiveHook(f.target, argArray[1])
      [] f = OwnHook -> Ok(Prim("'hooked'", 0), <<>>)
      [] OTHER -> Ok(CallResult(f, this, argArray), <<>>)

(***************************************************************************)
(* What the host does with a proxy whose handler is an instance of         *)
(* tbl[pr.cls]: a trap the handler has is called, one it lacks falls back  *)
(* on the Target.                                                          *)
(***************************************************************************)
Trap(tbl, pr, name, rest, default) ==
    LET trap == Lookup(tbl, pr.cls, name)
    IN  IF trap = NoMethod THEN default ELSE Call(tbl, trap, pr.target, rest)

\* proxy[p]
ProxyGet(tbl, pr, p) ==
    LET rest == <<PKey(p), ProxyRef>>
    IN  Trap(tbl, pr, "get", rest, ReflectGet(pr.target, rest))

\* p in proxy
ProxyHas(tbl, pr, p) ==
    LET rest == <<PKey(p)>>
    IN  Trap(tbl, pr, "has", rest, ReflectHas(pr.target, rest))

\* Reflect.set(proxy, p, value)
ProxySet(tbl, pr, p, value) ==
    LET rest == <<PKey(p), value, ProxyRef>>
    IN  Trap(tbl, pr, "set", rest, ReflectSet(pr.target, rest))

ToStringPrim(v) ==
    IF v.k = "prim" /\ v.v \in {"5", "NaN"}
    THEN Prim(IF v.v = "5" THEN "'5'" ELSE "'NaN'", v.bang)
    ELSE v

ToNumberPrim(v) ==
    IF v.k = "prim"
    THEN Prim(IF v.v \in {"5", "'5'"} THEN "5" ELSE "NaN", v.bang)
    ELSE v

\* String(proxy), Number(proxy) and the default-hint ToPrimitive(proxy) of
\* `proxy + ''`, when proxy[Symbol.toPrimitive] is a function: the host calls
\* it with the proxy as this and refuses an object for a result.
ProxyToPrimitive(tbl, pr, hint) ==
    LET got == ProxyGet(tbl, pr, "Symbol.toPrimitive")
        res == Apply(got.value, ProxyRef, <<Prim(hint, 0)>>)
    IN  IF got.status = "throw" THEN got
        ELSE IF res.status = "throw" THEN Throw(res.value, got.calls)
        ELSE IF res.value.k \notin {"prim", "undefined"}
        THEN Throw(Error("TypeError"), got.calls)
        ELSE Ok(CASE hint = "string" -> ToStringPrim(res.value)
                  [] hint = "number" -> ToNumberPrim(res.value)
                  [] OTHER -> res.value,
                got.calls)

\* The same coercions of the Target itself.
TargetToPrimitive(target, hint) ==
    CASE hint = "string" -> StringOf(target)
      [] hint = "number" -> NumberOf(target)
      [] OTHER -> OrdinaryDefault(target)

\* getTarget(maybeProxy): maybeProxy[getTargetSymbol]
getTarget(tbl, pr, maybeProxy) ==
    CASE maybeProxy.k \in {"undefined", "null"} -> Throw(Error("TypeError"), <<>>)
      [] maybeProxy.k = "proxyObject" -> ProxyGet(tbl, pr, getTargetSymbol)
      [] maybeProxy.k = "object" ->
            ReflectGet(maybeProxy, <<PKey(getTargetSymbol), maybeProxy>>)
      [] OTHER -> Ok(Undef, <<>>)

(***************************************************************************)
(* Mapped: DecorateAll(decorator, { deep: true }) of the decorate-all       *)
(* package, applied to the class tbl[idx].  It collects the method          *)
(* descriptors of the class and of every class it extends, the most derived *)
(* winning, hands each to the decorator and defines the result on the       *)
(* prototype of tbl[idx] itself.  It returns nothing: the class is changed  *)
(* in place.                                                                *)
(***************************************************************************)
\* A decorator without the test for Reflect's own names.
MappedDecoratorEveryMethod(m, propertyKey, value) == MappedMethod(m, value)

\* The decorator Mapped hands to DecorateAll: what descriptor.value becomes.
MappedDecorator(m, propertyKey, value) ==
    IF propertyKey \in ReflectOwnNames THEN MappedMethod(m, value) ELSE value

\* A DecorateAll that decorates the own methods of the class and of every
\* class it extends, each on its own prototype.
DecorateAllEveryClass(tbl, idx, m) ==
    [j \in 1..Len(tbl) |->
        IF j > idx THEN tbl[j]
        ELSE [tbl[j] EXCEPT
                 !.methods =
                     [n \in MethodNames |->
                         IF tbl[j].methods[n] = NoMethod THEN NoMethod
                         ELSE MappedDecorator(m, n, tbl[j].methods[n])],
                 !.mapped = IF j = idx THEN @ + 1 ELSE @]]

DecorateAll(tbl, idx, m) ==
    [tbl EXCEPT
        ![idx].methods =
            [n \in MethodNames |->
                IF Lookup(tbl, idx, n) = NoMethod THEN NoMethod
                ELSE MappedDecorator(m, n, Lookup(tbl, idx, n))],
        ![idx].mapped = @ + 1]

\* A decorator that defines its get on superClass itself.
ExtendInPlace(tbl, layer) ==
    [tbl EXCEPT ![Len(tbl)].methods["get"] = LayerGet(layer, Len(tbl))]

\* class <layer> extends superClass { override get(...) }, superClass the
\* latest handler type.
Extend(tbl, layer) ==
    Append(tbl, [layer |-> layer,
                 methods |-> [NoMethods EXCEPT !["get"] = LayerGet(layer, Len(tbl) + 1)],
                 mapped |-> 0])

RECURSIVE MappedCount(_, _)
MappedCount(tbl, idx) ==
    IF idx = 0 THEN 0 ELSE tbl[idx].mapped + MappedCount(tbl, idx - 1)

\* Decorators applied so far.
Applications(tbl) == Len(tbl) - 1 + MappedCount(tbl, Len(tbl))

(***************************************************************************)
(* State.  proxy is the one proxy of the model; last is the operation done *)
(* last, with its outcome and the calls it made.                           *)
(***************************************************************************)
NoProxy == [k |-> "none"]

Record(op, key, input, this, r) ==
    [op |-> op, key |-> key, input |-> input, this |-> this,
     status |-> r.status, value |-> r.value, calls |-> r.calls]

Defined(op) == Record(op, "", Undef, Undef, Ok(Undef, <<>>))

Init ==
    /\ classes \in {<<root>> : root \in RootTypes}
    /\ proxy = NoProxy
    /\ last = Defined("start")

\* @TargetAsThis on the latest handler type.
TargetAsThis ==
    /\ Applications(classes) < MaxLayers
    /\ classes' = Extend(classes, "TargetAsThis")
    /\ last' = Defined("TargetAsThis")
    /\ UNCHANGED proxy

\* @DefaultToPrimitive on the latest handler type.
DefaultToPrimitive ==
    /\ Applications(classes) < MaxLayers
    /\ classes' = Extend(classes, "DefaultToPrimitive")
    /\ last' = Defined("DefaultToPrimitive")
    /\ UNCHANGED proxy

\* @DefaultToStringTag on the latest handler type.
DefaultToStringTag ==
    /\ Applications(classes) < MaxLayers
    /\ classes' = Extend(classes, "DefaultToStringTag")
    /\ last' = Defined("DefaultToStringTag")
    /\ UNCHANGED proxy

\* @AllowGetTarget on the latest handler type.
AllowGetTarget ==
    /\ Applications(classes) < MaxLayers
    /\ classes' = Extend(classes, "AllowGetTarget")
    /\ last' = Defined("AllowGetTarget")
    /\ UNCHANGED proxy

\* Mapped(mapper)(HandlerType), HandlerType any handler type defined so far.
Mapped ==
    /\ Applications(classes) < MaxLayers
    /\ \E m \in Mappers, idx \in 1..Len(classes) :
          classes' = DecorateAll(classes, idx, m)
    /\ last' = Defined("Mapped")
    /\ UNCHANGED proxy

\* new Proxy(target, new HandlerType()), HandlerType the latest handler type.
NewProxy ==
    /\ \E target \in Targets :
          proxy' = [k |-> "proxy", target |-> target, cls |-> Len(classes)]
    /\ last' = Defined("new Proxy")
    /\ UNCHANGED classes

\* proxy[p]
Get ==
    /\ proxy # NoProxy
    /\ \E p \in Keys \ {getTargetSymbol} :
          last' = Record("get", p, Undef, Undef, ProxyGet(classes, proxy, p))
    /\ UNCHANGED <<classes, proxy>>

\* p in proxy
Has ==
    /\ proxy # NoProxy
    /\ \E p \in {"x", "none"} :
          last' = Record("has", p, Undef, Undef, ProxyHas(classes, proxy, p))
    /\ UNCHANGED <<classes, proxy>>

\* Reflect.set(proxy, 'x', value)
Set ==
    /\ proxy # NoProxy
    /\ last' = Record("set", "x", Prim("v", 0), Undef,
                      ProxySet(classes, proxy, "x", Prim("v", 0)))
    /\ UNCHANGED <<classes, proxy>>

\* handler.helper(target, 'x'): a method of the handler that is no trap,
\* called on the handler directly.
Helper ==
    /\ proxy # NoProxy
    /\ Lookup(classes, proxy.cls, "helper") # NoMethod
    /\ last' = Record("helper", "x", Undef, Undef,
                      Call(classes, Lookup(classes, proxy.cls, "helper"),
                           proxy.target, <<PKey("x")>>))
    /\ UNCHANGED <<classes, proxy>>

\* getTarget(maybeProxy)
GetTarget ==
    /\ \E maybeProxy \in {Undef, Null, Prim("5", 0), Obj("foo", 0)}
                          \cup (IF proxy = NoProxy THEN {} ELSE {ProxyRef}) :
          last' = Record("getTarget", getTargetSymbol, maybeProxy, Undef,
                         getTarget(classes, proxy, maybeProxy))
    /\ UNCHANGED <<classes, proxy>>

\* The function that proxy[p] returned, called: with the proxy as this
\* (proxy.m('a')) or with another receiver (proxy.m.call(other, 'a')).
Invoke ==
    /\ last.op = "get" /\ last.status = "ok" /\ IsCallable(last.value)
    /\ \E this \in {ProxyRef, OtherThis} :
          last' = Record("call", last.key, last.value, this,
                         Apply(last.value, this, <<Prim("a", 0)>>))
    /\ UNCHANGED <<classes, proxy>>

\* String(proxy), Number(proxy), proxy + '' of a proxy that has a
\* Symbol.toPrimitive.
ToPrimitive ==
    /\ proxy # NoProxy
    /\ LET got == ProxyGet(classes, proxy, "Symbol.toPrimitive")
       IN  got.status = "throw" \/ IsCallable(got.value)
    /\ \E hint \in {"string", "number", "default"} :
          last' = Record("toPrimitive", "Symbol.toPrimitive", Prim(hint, 0), Undef,
                         ProxyToPrimitive(classes, proxy, hint))
    /\ UNCHANGED <<classes, proxy>>

Next ==
    \/ TargetAsThis
    \/ DefaultToPrimitive
    \/ DefaultToStringTag
    \/ AllowGetTarget
    \/ Mapped
    \/ NewProxy
    \/ Get
    \/ Has
    \/ Set
    \/ Helper
    \/ GetTarget
    \/ Invoke
    \/ ToPrimitive

Spec == Init /\ [][Next]_vars

(***************************************************************************)
(* Vocabulary of the properties.                                           *)
(***************************************************************************)
\* The handler type tbl[c] has `layer` on its chain.
HasLayer(tbl, c, layer) == \E j \in 1..c : tbl[j].layer = layer

\* The proxy's handler type has `layer` on its chain.
ProxyHasLayer(layer) == proxy # NoProxy /\ HasLayer(classes, proxy.cls, layer)

Fns(calls) == [i \in 1..Len(calls) |-> calls[i].fn]

CountFn(calls, fn) == Cardinality({i \in 1..Len(calls) : calls[i].fn = fn})

TrapOps == {"get", "has", "set"}

\* The handler method behind an operation of the model.
TrapOf(op) ==
    CASE op \in {"get", "getTarget", "toPrimitive"} -> "get"
      [] op = "has" -> "has"
      [] op = "set" -> "set"
      [] OTHER -> "helper"

\* The arguments the host hands to the trap after the Target.
RestOf(l) ==
    CASE l.op = "get" -> <<PKey(l.key), ProxyRef>>
      [] l.op = "has" -> <<PKey(l.key)>>
      [] l.op = "set" -> <<PKey(l.key), l.input, ProxyRef>>
      [] OTHER -> <<PKey(l.key)>>

\* An operation `name` with key p on an instance of classes[c] gets as far
\* as the methods of classes[j]: the read of the reserved key stops at the
\* topmost AllowGetTarget.
Reaches(j, c, name, p) ==
    /\ j <= c
    /\ (name = "get" /\ p = getTargetSymbol) =>
          \A i \in (j + 1)..c : classes[i].layer # "AllowGetTarget"

\* Mapped decorators that an operation passes: those applied to a class it
\* reaches on whose chain the method is defined and belongs to Reflect.
RECURSIVE MappedPassed(_, _, _, _)
MappedPassed(j, c, name, p) ==
    IF j = 0 THEN 0
    ELSE (IF /\ Reaches(j, c, name, p)
             /\ name \in ReflectOwnNames
             /\ Lookup(classes, j, name) # NoMethod
          THEN classes[j].mapped ELSE 0)
         + MappedPassed(j - 1, c, name, p)

(***************************************************************************)
(* Claims.                                                                 *)
(***************************************************************************)
\* C1: whenever the proxy's handler stack includes AllowGetTarget, whatever
\* the layers above or below it, getTarget(proxy) returns the very Target
\* that was given to new Proxy.
C1_GetTargetReturnsTarget ==
    (/\ last.op = "getTarget"
     /\ last.input = ProxyRef
     /\ ProxyHasLayer("AllowGetTarget"))
    => (last.status = "ok" /\ last.value = proxy.target)

\* C2: getTarget never raises: for any value that is not a proxy whose
\* handler stack includes AllowGetTarget (null and undefined too) it returns
\* undefined.
C2_GetTargetNeverRaises ==
    (/\ last.op = "getTarget"
     /\ ~(last.input = ProxyRef /\ ProxyHasLayer("AllowGetTarget")))
    => (last.status = "ok" /\ last.value = Undef)

\* C5: in every stack that contains TargetAsThis, Mapped included, the
\* method read through the proxy runs the original callable with the same
\* arguments and with this the raw Target when it is called on the proxy,
\* and with the given receiver when it is called on another receiver; a
\* value that is not callable is returned as it is, not wrapped.
C5_ThisIsRawTarget ==
    ProxyHasLayer("TargetAsThis") =>
        /\ (last.op = "call" /\ last.key = "m") =>
              /\ last.input.k = "wrapped"
              /\ last.status = "ok"
              /\ last.value =
                    CallResult(Method,
                               IF last.this = ProxyRef THEN proxy.target ELSE last.this,
                               <<Prim("a", 0)>>)
        /\ (last.op = "get" /\ last.key = "x") => last.value.k = "prim"

\* C6: with DefaultToPrimitive in the stack, String(proxy), Number(proxy) and
\* the default-hint conversion of the proxy give what the same conversion of
\* the Target gives (a primitive, or the same fault); a Target's own
\* Symbol.toPrimitive is the one that answers.
C6_CoercionAgrees ==
    (last.op = "toPrimitive" /\ ProxyHasLayer("DefaultToPrimitive")) =>
        LET same == TargetToPrimitive(proxy.target, last.input.v)
        IN  /\ last.status = same.status
            /\ last.value = same.value

\* C9: the reserved key is handed to no get but AllowGetTarget's: no other
\* layer's get, no base handler's get and no mapper is called with it.
C9_ReservedKeyConfined ==
    \A i \in 1..Len(last.calls) :
        LET call == last.calls[i]
        IN  (/\ call.fn \notin {"AllowGetTarget", "Reflect.get", "Reflect.has",
                                "Reflect.set"}
             /\ Len(call.rest) > 0)
            => call.rest[1] # PKey(getTargetSymbol)

\* C3: a trap that Mapped wrapped hands the original implementation
\* mapper(target) as its first argument and the other arguments as they came;
\* every trap of Reflect's vocabulary that is defined anywhere on the chain
\* of the decorated class is wrapped; a method that is no trap is not
\* wrapped and gets its arguments untouched.
C3_MappedWrapsTraps ==
    /\ \A i \in 1..Len(last.calls) :
          last.calls[i].fn = "Mapped" =>
              /\ i + 2 <= Len(last.calls)
              /\ last.calls[i + 1] = Event("mapper", last.calls[i].target, <<>>)
              /\ last.calls[i + 2].fn \notin {"mapper", "Reflect.get", "Reflect.has",
                                              "Reflect.set"}
              /\ last.calls[i + 2].target = addBang(last.calls[i].target)
              /\ last.calls[i + 2].rest = last.calls[i].rest
    /\ last.op \in TrapOps =>
          /\ last.calls[1].target = proxy.target
          /\ last.calls[1].rest = RestOf(last)
          /\ (\E j \in 1..proxy.cls :
                 /\ classes[j].mapped > 0
                 /\ Lookup(classes, j, last.op) # NoMethod)
             => CountFn(last.calls, "Mapped") > 0
    /\ last.op = "helper" =>
          /\ last.calls = <<Event("Forwarding", proxy.target, <<PKey("x")>>)>>
          /\ last.value = proxy.target

\* C3's case: a set through a class that only inherits set and that Mapped
\* decorated; the inherited trap got the mapped Target, the key, the value
\* and the receiver.
C3_Witness ==
    /\ last.op = "set"
    /\ proxy.cls >= 2
    /\ classes[proxy.cls].mapped > 0
    /\ classes[1].mapped = 0
    /\ Len(last.calls) >= 3
    /\ last.calls[3] = Event("Forwarding", addBang(proxy.target),
                             <<PKey("x"), Prim("v", 0), ProxyRef>>)

\* C4: mapper is not called when a decorator is applied (Mapped too) nor when
\* the handler and the proxy are made; an operation on the proxy calls it
\* once each time it enters a method that Mapped wrapped, never more than
\* once per Mapped decorator on the chain however many classes of the chain
\* define the trap, and, with one Mapped decorator on the chain, exactly once
\* if the operation passes it and not at all otherwise, whatever was done
\* before.
C4_MapperOncePerOperation ==
    /\ last.op \notin {"get", "has", "set", "helper", "getTarget", "toPrimitive"}
          => last.calls = <<>>
    /\ CountFn(last.calls, "mapper") = CountFn(last.calls, "Mapped")
    /\ (last.op \in {"get", "has", "set", "helper", "toPrimitive"}
        \/ (last.op = "getTarget" /\ last.input = ProxyRef))
          => /\ CountFn(last.calls, "mapper") <= MappedCount(classes, proxy.cls)
             /\ MappedCount(classes, proxy.cls) = 1 =>
                   CountFn(last.calls, "mapper")
                      = MappedPassed(proxy.cls, proxy.cls, TrapOf(last.op), last.key)
    /\ (last.op = "getTarget" /\ last.input # ProxyRef)
          => CountFn(last.calls, "mapper") = 0

\* C4's case: a read through Mapped applied once to a class whose get and
\* the get of the class under it are both defined: one call of mapper.
C4_Witness ==
    /\ last.op = "get"
    /\ proxy.cls = 2
    /\ classes[1].layer = "Forwarding"
    /\ classes[1].mapped = 0
    /\ classes[2].mapped = 1
    /\ CountFn(last.calls, "mapper") = 1
    /\ CountFn(last.calls, "Forwarding") = 1

\* C7: DefaultToStringTag's get returns what the get under it returns when
\* that is not undefined (and lets its fault through); when it is undefined
\* and the key is Symbol.toStringTag it returns the name of the constructor
\* on the Target's prototype ("Foo" for an instance of Foo), undefined when
\* the Target has no prototype or that constructor is no function; for any
\* other key it returns undefined.
C7_DefaultToStringTag ==
    (/\ last.op = "get"
     /\ classes[proxy.cls].methods["get"] = LayerGet("DefaultToStringTag", proxy.cls))
    => LET base == SuperGet(classes, proxy.cls, proxy.target, RestOf(last))
           kind == proxy.target.kind
       IN  /\ last.status = base.status
           /\ (base.status = "throw" \/ base.value # Undef) => last.value = base.value
           /\ (base.status = "ok" /\ base.value = Undef) =>
                 IF last.key = "Symbol.toStringTag"
                 THEN /\ kind = "foo" => last.value = Prim("Foo", 0)
                      /\ kind = "fn" => last.value = Prim("Function", 0)
                      /\ kind = "boxed" => last.value = Prim("Number", 0)
                      /\ kind \in {"bare", "odd"} => last.value = Undef
                 ELSE last.value = Undef

\* C7's case: the type tag of a proxy over an instance of Foo, read through
\* DefaultToStringTag, is "Foo".
C7_Witness ==
    /\ last.op = "get"
    /\ last.key = "Symbol.toStringTag"
    /\ classes[proxy.cls].layer = "DefaultToStringTag"
    /\ proxy.target = Obj("foo", 0)
    /\ last.value = Prim("Foo", 0)

\* The get calls of an access that goes down the whole chain of classes[c]:
\* each decorator's get from the outermost to the innermost, the root's get
\* if it has one, and the host's property read.
ChainFns(c) ==
    [i \in 1..(c - 1) |-> classes[c - i + 1].layer]
    \o (IF classes[1].methods["get"] = NoMethod THEN <<>> ELSE <<classes[1].layer>>)
    \o <<"Reflect.get">>

\* C10: in a stack of the four get decorators, an access that no layer
\* customises (a key that is not the reserved one, whose value is neither
\* callable nor missing) calls each layer's get once, from the outermost
\* down to the base handler's get or the host's read, each with the Target,
\* the same key and the proxy as receiver, and returns the base's value;
\* a fault of the base comes out as it was raised.
C10_DelegationChain ==
    (/\ last.op = "get"
     /\ last.key \in {"x", "boom"}
     /\ MappedCount(classes, proxy.cls) = 0)
    => /\ Fns(last.calls) = ChainFns(proxy.cls)
       /\ \A i \in 1..Len(last.calls) :
             /\ last.calls[i].target = proxy.target
             /\ last.calls[i].rest = <<PKey(last.key), ProxyRef>>
       /\ last.key = "x" => (last.status = "ok" /\ last.value = Prim("hello", 0))
       /\ last.key = "boom" => (last.status = "throw" /\ last.value = Error("boom"))

\* C10's case: a read of x through two decorators over a base handler that
\* has a get.
C10_Witness ==
    /\ last.op = "get"
    /\ last.key = "x"
    /\ proxy.cls = 3
    /\ classes[1].layer = "Forwarding"
    /\ classes[2].layer # classes[3].layer
    /\ MappedCount(classes, 3) = 0
    /\ Len(last.calls) = 4

\* The methods an instance of tbl[i] inherits.
Inherited(tbl, i) == [n \in MethodNames |-> Lookup(tbl, i, n)]

\* What a handler of the type tbl[i] answers: every read, has and set on
\* every Target.
Behaviour(tbl, i) ==
    [target \in Targets |->
        LET pr == [k |-> "proxy", target |-> target, cls |-> i]
        IN  <<[p \in Keys |-> ProxyGet(tbl, pr, p)],
              ProxyHas(tbl, pr, "x"),
              ProxySet(tbl, pr, "x", Prim("v", 0))>>]

====
